---- MODULE Spec2Model ----
(***************************************************************************)
(* The restocking report: `action` of app/routes/app._index.jsx.           *)
(*                                                                         *)
(* Text values that take part in the grouping key or in the sort           *)
(* (titles, SKUs) are sequences of one-character strings, so that the      *)
(* template string of the grouping key is a real concatenation.  The       *)
(* empty sequence stands for a JavaScript falsy text (null, undefined,     *)
(* ""), which `||` treats alike.  A nullable object (product, variant) is  *)
(* <<>> when null and <<record>> when present.  Location names never take  *)
(* part in a concatenation and are plain strings, "" being falsy.          *)
(***************************************************************************)
EXTENDS Integers, Sequences, FiniteSets, TLC

(* ----------------------------- bounds --------------------------------- *)
MaxPages == 2          \* pages of a sample store
MaxPageLen == 2        \* orders on a page of a sample store
BulkPages == 22        \* pages of a busy store

(* ------------------------- program constants -------------------------- *)
PageSize == 50         \* orders(first: 50)
MaxMatched == 1000     \* if (allOrders.length > 1000) break

(* ------------------------------ texts --------------------------------- *)
NA == <<"N", "/", "A">>
Delim == <<"|", "|">>
Unknown == "Unknown"
Dash == [dash |-> TRUE, n |-> 0]

(* --------------------------- dates and times --------------------------- *)
\* new Date("....T hh:mm") of a datetime-local form field <<hh, mm>>:
\* milliseconds since local midnight.
ParseDate(s) == ((s[1] * 60) + s[2]) * 60000

\* new Date(createdAt) of an ISO timestamp <<hh, mm, ss, ms>>.
ParseCreatedAt(s) == ((((s[1] * 60) + s[2]) * 60) + s[3]) * 1000 + s[4]

\* Date.prototype.setSeconds(sec, ms): same minute, the given seconds and
\* milliseconds.
SetSeconds(t, sec, ms) == (t - (t % 60000)) + (sec * 1000) + ms

\* endDate.setSeconds(59, 999)
EndOfMinute(t) == SetSeconds(t, 59, 999)

\* created >= startDate && created <= endDate
InWindowMutant(created, start, end) == created >= start /\ created < end
InWindow(created, start, end) == created >= start /\ created <= end

(* ------------------- strict left fold: a for-of loop ------------------- *)
\* for (const x of s[lo..hi]) acc = f(acc, x).  The range is split in two
\* and the left half is folded to a value before the right half starts, so
\* that the evaluation depth stays logarithmic in the length.
RECURSIVE ForOf(_, _, _, _, _)
ForOf(f(_, _), acc, s, lo, hi) ==
  IF lo > hi THEN acc
  ELSE IF lo = hi THEN f(acc, s[lo])
  ELSE LET mid == (lo + hi) \div 2
       IN CHOOSE r \in { ForOf(f, v, s, mid + 1, hi) :
                           v \in { ForOf(f, acc, s, lo, mid) } } : TRUE

(* ------------------------ flattening (133-166) ------------------------- *)
\* x || "N/A"
OrNAMutant(x) == x
OrNA(x) == IF x = <<>> THEN NA ELSE x

\* lvl.location?.name || "Unknown"
LocNameMutant(lvl) == lvl.location
LocName(lvl) == IF lvl.location = "" THEN Unknown ELSE lvl.location

\* avail ? avail.quantity : "-"
LocValue(lvl) ==
  IF lvl.available = <<>> THEN Dash ELSE [dash |-> FALSE, n |-> lvl.available[1]]

\* Set.prototype.add on a set kept in insertion order
SetAdd(names, x) ==
  IF \E i \in 1..Len(names) : names[i] = x THEN names ELSE Append(names, x)

\* obj[k] = v
Put(obj, k, v) == [x \in (DOMAIN obj) \cup {k} |-> IF x = k THEN v ELSE obj[x]]

EmptyObject == [x \in {} |-> Dash]

\* body of `for (const lvlEdge of levels)`
AddLevel(acc, lvl) ==
  [names |-> SetAdd(acc.names, LocName(lvl)),
   data  |-> Put(acc.data, LocName(lvl), LocValue(lvl))]

\* v?.inventoryItem?.inventoryLevels?.edges || []
Levels(n) == IF n.variant = <<>> THEN <<>> ELSE n.variant[1].levels

ProductText(n, f) == IF n.product = <<>> THEN <<>> ELSE n.product[1][f]
VariantText(n, f) == IF n.variant = <<>> THEN <<>> ELSE n.variant[1][f]

\* body of `for (const liEdge of orderNode.lineItems.edges)`
PushLineItem(acc, n) ==
  LET lv == ForOf(AddLevel, [names |-> acc.locationNames, data |-> EmptyObject],
                  Levels(n), 1, Len(Levels(n)))
  IN [rawRows |-> Append(acc.rawRows,
                   [productTitle        |-> OrNA(ProductText(n, "title")),
                    productVariantTitle |-> OrNA(VariantText(n, "title")),
                    sku                 |-> OrNA(VariantText(n, "sku")),
                    vendor              |-> OrNA(ProductText(n, "vendor")),
                    productType         |-> OrNA(ProductText(n, "productType")),
                    netItemsSold        |-> n.quantity,
                    locations           |-> lv.data]),
      locationNames |-> lv.names]

\* body of `for (const orderEdge of allOrders)`
PushOrder(acc, orderEdge) ==
  ForOf(PushLineItem, acc, orderEdge.lineItems, 1, Len(orderEdge.lineItems))

BuildRows(orders) ==
  ForOf(PushOrder, [rawRows |-> <<>>, locationNames |-> <<>>],
        orders, 1, Len(orders))

(* ------------------------- grouping (172-195) -------------------------- *)
\* `${r.productTitle}||${r.productVariantTitle}||${r.sku}`
GroupKeyMutant(r) == r.productVariantTitle \o Delim \o r.sku
GroupKey(r) ==
  r.productTitle \o Delim \o r.productVariantTitle \o Delim \o r.sku

\* grouped[key].netItemsSold += r.netItemsSold
AddSoldMutant(sold, qty) == qty
AddSold(sold, qty) == sold + qty

\* for (const loc of Object.keys(r.locations)) g.locations[loc] = r.locations[loc]
MergeLocationsMutant(into, from) ==
  [x \in (DOMAIN into) \cup (DOMAIN from) |->
     IF x \in DOMAIN into THEN into[x] ELSE from[x]]
MergeLocations(into, from) ==
  [x \in (DOMAIN into) \cup (DOMAIN from) |->
     IF x \in DOMAIN from THEN from[x] ELSE into[x]]

\* The object `grouped` is the sequence of its properties, in insertion
\* order: key is the property name, row its value.
\* body of `for (const r of rawRows)`
GroupRow(grouped, r) ==
  LET key == GroupKey(r)
      g0  == IF \E i \in 1..Len(grouped) : grouped[i].key = key
             THEN grouped
             ELSE Append(grouped,
                    [key |-> key,
                     row |-> [productTitle        |-> r.productTitle,
                              productVariantTitle |-> r.productVariantTitle,
                              sku                 |-> r.sku,
                              vendor              |-> r.vendor,
                              productType         |-> r.productType,
                              netItemsSold        |-> 0,
                              locations           |-> EmptyObject]])
  IN [i \in 1..Len(g0) |->
        IF g0[i].key = key
        THEN [key |-> key,
              row |-> [g0[i].row EXCEPT
                         !.netItemsSold = AddSold(@, r.netItemsSold),
                         !.locations = MergeLocations(@, r.locations)]]
        ELSE g0[i]]

GroupRows(rawRows) == ForOf(GroupRow, <<>>, rawRows, 1, Len(rawRows))

\* Object.values(grouped)
ObjectValues(grouped) == [i \in 1..Len(grouped) |-> grouped[i].row]

(* -------------------------- sorting (197-200) -------------------------- *)
\* Collation weight of a character: punctuation, then digits, then letters,
\* a lower-case letter before its upper-case form.
CollationWeight(c) ==
  CASE c = "/" -> 1   [] c = "|" -> 2
    [] c = "1" -> 11  [] c = "2" -> 12  [] c = "3" -> 13
    [] c = "a" -> 20  [] c = "A" -> 21
    [] c = "b" -> 22  [] c = "B" -> 23
    [] c = "C" -> 25  [] c = "N" -> 47  [] c = "V" -> 63
    [] OTHER -> 99

\* a.localeCompare(b): negative, zero or positive
RECURSIVE LocaleCompare(_, _)
LocaleCompare(a, b) ==
  IF a = <<>> /\ b = <<>> THEN 0
  ELSE IF a = <<>> THEN -1
  ELSE IF b = <<>> THEN 1
  ELSE IF CollationWeight(Head(a)) < CollationWeight(Head(b)) THEN -1
  ELSE IF CollationWeight(Head(a)) > CollationWeight(Head(b)) THEN 1
  ELSE LocaleCompare(Tail(a), Tail(b))

\* One step of a stable sort: r goes after the last row that does not sort
\* after it.
InsertSortedMutant(sorted, r) == Append(sorted, r)
InsertSorted(sorted, r) ==
  LET before == { i \in 1..Len(sorted) : LocaleCompare(sorted[i].sku, r.sku) <= 0 }
      k == Cardinality(before)
  IN SubSeq(sorted, 1, k) \o <<r>> \o SubSeq(sorted, k + 1, Len(sorted))

\* Object.values(grouped).sort((a, b) => a.sku.localeCompare(b.sku))
SortRows(values) == ForOf(InsertSorted, <<>>, values, 1, Len(values))

(* ---------------------- loop control (94, 119-123) ---------------------- *)
\* if (allOrders.length > 1000) break
CapExceededMutant(n) == FALSE
CapExceeded(n) == n > MaxMatched

(* ------------------------- sample store data --------------------------- *)
TxtA == <<"A">>
TxtB == <<"B">>
TxtV == <<"V">>
TxtAPipe == <<"A", "|">>
TxtPipeB == <<"|", "B">>
SkuABC == <<"A", "B", "C", "1", "2", "3">>
SkuB1 == <<"b", "1">>
SkuB == <<"B">>

Product(title, vendor) == <<[title |-> title, vendor |-> vendor, productType |-> <<>>]>>
Variant(title, sku, levels) == <<[title |-> title, sku |-> sku, levels |-> levels]>>
Level(name, available) == [location |-> name, available |-> available]
LineItem(qty, p, v) == [quantity |-> qty, product |-> p, variant |-> v]

L1 == LineItem(3, Product(TxtA, TxtV),
               Variant(TxtV, SkuABC, <<Level("Warehouse A", <<10>>)>>))
L2 == LineItem(5, Product(TxtA, TxtV), Variant(TxtV, SkuABC, <<>>))
L3 == LineItem(1, Product(TxtA, TxtV),
               Variant(TxtV, SkuABC, <<Level("Warehouse A", <<7>>), Level("", <<>>)>>))
L4 == LineItem(2, Product(TxtA, TxtV), <<>>)
L5 == LineItem(4, Product(TxtB, TxtV), <<>>)
L6 == LineItem(6, Product(TxtA, TxtB),
               Variant(<<>>, <<>>, <<Level("Warehouse A", <<>>)>>))
L7 == LineItem(7, Product(TxtAPipe, TxtV), Variant(TxtB, SkuB1, <<>>))
L8 == LineItem(8, Product(TxtA, TxtV), Variant(TxtPipeB, SkuB1, <<>>))
L9 == LineItem(9, <<>>, Variant(TxtV, SkuB, <<Level("Warehouse B", <<2>>)>>))
L10 == LineItem(10, Product(TxtB, <<>>),
                Variant(TxtV, SkuABC, <<Level("Warehouse C", <<1>>)>>))

Order(createdAt, items) == [createdAt |-> createdAt, lineItems |-> items]

TBefore == <<0, 0, 59, 999>>
TStart == <<0, 1, 0, 0>>
TMid == <<0, 1, 30, 0>>
TEnd == <<0, 1, 59, 999>>
TAfter == <<0, 2, 0, 0>>

O1 == Order(TStart, <<L1, L2>>)
O2 == Order(TEnd, <<L3, L5>>)
O3 == Order(TBefore, <<L9>>)
O4 == Order(TAfter, <<L10>>)
O5 == Order(TMid, <<L7, L8>>)
O6 == Order(TMid, <<L6, L4>>)

SampleOrders == {O1, O2, O3, O4, O5, O6}

\* the submitted form: <<startDate, endDate>>, each <<hh, mm>>
Form1 == << <<0, 1>>, <<0, 1>> >>
Form2 == << <<0, 1>>, <<0, 2>> >>
Forms == {Form1, Form2}

RECURSIVE Concat(_)
Concat(pages) == IF pages = <<>> THEN <<>> ELSE Head(pages) \o Concat(Tail(pages))

\* the sequences of at most n elements of S, none repeated
RECURSIVE Arrangements(_, _)
Arrangements(S, n) ==
  IF n = 0 THEN {<<>>}
  ELSE {<<>>} \cup UNION { { <<x>> \o t : t \in Arrangements(S \ {x}, n - 1) } :
                            x \in S }

\* the ways to serve the orders s as at most n pages of 1..MaxPageLen orders
RECURSIVE Paginations(_, _)
Paginations(s, n) ==
  IF s = <<>> THEN {<<>>}
  ELSE IF n = 0 THEN {}
  ELSE UNION { { <<SubSeq(s, 1, k)>> \o rest :
                   rest \in Paginations(SubSeq(s, k + 1, Len(s)), n - 1) } :
               k \in 1..(IF Len(s) < MaxPageLen THEN Len(s) ELSE MaxPageLen) }

\* A sample store: at most MaxPages pages of 1..MaxPageLen sample orders,
\* each sample order at most once.
SampleStores ==
  UNION { Paginations(s, MaxPages) :
            s \in Arrangements(SampleOrders, MaxPages * MaxPageLen) }

\* A busy store: BulkPages pages of in-window orders, all full but perhaps
\* the first.
BulkOrder == Order(TMid, <<L1>>)
BulkFirstPageLens == {1, PageSize - 1, PageSize}
BulkStore(first) ==
  [p \in 1..BulkPages |->
     [i \in 1..(IF p = 1 THEN first ELSE PageSize) |-> BulkOrder]]
BulkStores == { BulkStore(first) : first \in BulkFirstPageLens }

(* ------------------------------- state --------------------------------- *)
VARIABLES
  store,          \* the remote store's orders, as the pages it serves
  startDateStr,   \* formData.get("startDate")
  endDateStr,     \* formData.get("endDate")
  startDate,      \* new Date(startDateStr)
  endDate,        \* new Date(endDateStr), end of its minute
  allOrders,      \* matched order edges
  cursor,         \* 0 is null, p is the endCursor of page p
  hasNextPage,
  pc,             \* "fetch": about to request a page; "done": returned;
                  \* "threw": the promise of `action` rejected
  data,           \* outcome of the last request: "none", "ok", "errors",
                  \* "noConnection", "threw"
  requests,       \* history: number of admin.graphql calls
  fetched,        \* history: the edges of every processed page, in order
  rawRows,
  locationNames,
  grouped,
  rows            \* finalRows

vars == <<store, startDateStr, endDateStr, startDate, endDate, allOrders,
          cursor, hasNextPage, pc, data, requests, fetched, rawRows,
          locationNames, grouped, rows>>

form == <<store, startDateStr, endDateStr, startDate, endDate>>
result == <<rawRows, locationNames, grouped, rows>>

\* The response of the remote store to the query with `after: cursor`.
RemotePage(c) ==
  IF c + 1 > Len(store)
  THEN [edges |-> <<>>, hasNextPage |-> FALSE, endCursor |-> c]
  ELSE [edges |-> store[c + 1], hasNextPage |-> c + 1 < Len(store),
        endCursor |-> c + 1]

Init ==
  /\ \E f \in Forms :
       /\ startDateStr = f[1]
       /\ endDateStr = f[2]
       /\ startDate = ParseDate(f[1])
       /\ endDate = EndOfMinute(ParseDate(f[2]))
       /\ \/ store \in SampleStores
          \/ f = Form1 /\ store \in BulkStores
  /\ allOrders = <<>>
  /\ cursor = 0
  /\ hasNextPage = TRUE
  /\ pc = "fetch"
  /\ data = "none"
  /\ requests = 0
  /\ fetched = <<>>
  /\ rawRows = <<>>
  /\ locationNames = <<>>
  /\ grouped = <<>>
  /\ rows = <<>>

\* Lines 133-208: the code after the loop, up to `return`.
Return(orders) ==
  LET built == BuildRows(orders)
      g == GroupRows(built.rawRows)
  IN /\ rawRows' = built.rawRows
     /\ locationNames' = built.locationNames
     /\ grouped' = g
     /\ rows' = SortRows(ObjectValues(g))
     /\ pc' = "done"

\* admin.graphql or response.json() rejects: nothing catches it.
FetchThrows ==
  /\ pc = "fetch"
  /\ pc' = "threw"
  /\ data' = "threw"
  /\ requests' = requests + 1
  /\ UNCHANGED <<form, allOrders, cursor, hasNextPage, fetched, result>>

\* if (data.errors) { console.error(...); break; }
FetchErrors ==
  /\ pc = "fetch"
  /\ data' = "errors"
  /\ requests' = requests + 1
  /\ Return(allOrders)
  /\ UNCHANGED <<form, allOrders, cursor, hasNextPage, fetched>>

\* if (!ordersConnection) break;
FetchNoConnection ==
  /\ pc = "fetch"
  /\ data' = "noConnection"
  /\ requests' = requests + 1
  /\ Return(allOrders)
  /\ UNCHANGED <<form, allOrders, cursor, hasNextPage, fetched>>

\* Lines 109-126: a page is processed; the loop goes on or ends.
FetchPage ==
  /\ pc = "fetch"
  /\ LET resp == RemotePage(cursor)
         Match(edge) == InWindow(ParseCreatedAt(edge.createdAt), startDate, endDate)
         matched == allOrders \o SelectSeq(resp.edges, Match)
     IN /\ allOrders' = matched
        /\ hasNextPage' = resp.hasNextPage
        /\ cursor' = resp.endCursor
        /\ fetched' = fetched \o resp.edges
        /\ IF CapExceeded(Len(matched)) \/ ~resp.hasNextPage
           THEN Return(matched)
           ELSE pc' = "fetch" /\ UNCHANGED result
  /\ data' = "ok"
  /\ requests' = requests + 1
  /\ UNCHANGED form

Next == FetchThrows \/ FetchErrors \/ FetchNoConnection \/ FetchPage

Spec == Init /\ [][Next]_vars

TypeOK ==
  /\ pc \in {"fetch", "done", "threw"}
  /\ data \in {"none", "ok", "errors", "noConnection", "threw"}
  /\ cursor \in 0..Len(store)
  /\ requests \in 0..Len(store) + 1
  /\ hasNextPage \in BOOLEAN

(* ----------------------- vocabulary of the claims ----------------------- *)
Range(s) == { s[i] : i \in 1..Len(s) }

RECURSIVE SumSeq(_, _, _)
SumSeq(s, lo, hi) ==
  IF lo > hi THEN 0
  ELSE IF lo = hi THEN s[lo]
  ELSE SumSeq(s, lo, (lo + hi) \div 2) + SumSeq(s, ((lo + hi) \div 2) + 1, hi)

Total(s) == SumSeq(s, 1, Len(s))

\* the line items of a list of orders, order by order
RECURSIVE ItemsOf(_, _, _)
ItemsOf(orders, lo, hi) ==
  IF lo > hi THEN <<>>
  ELSE IF lo = hi THEN orders[lo].lineItems
  ELSE ItemsOf(orders, lo, (lo + hi) \div 2)
         \o ItemsOf(orders, ((lo + hi) \div 2) + 1, hi)

MatchedItems == ItemsOf(allOrders, 1, Len(allOrders))

Triple(r) == <<r.productTitle, r.productVariantTitle, r.sku>>

HasPipe(t) == \E i \in 1..Len(t) : t[i] = "|"
HasDelim(t) == \E i \in 1..(Len(t) - 1) : t[i] = "|" /\ t[i + 1] = "|"

\* quantity sold by the flattened rows of one triple
SoldOfTriple(t) ==
  Total([i \in 1..Len(rawRows) |->
           IF Triple(rawRows[i]) = t THEN rawRows[i].netItemsSold ELSE 0])

\* one aggregate row per triple of the flattened rows, holding the triple's sum
OneRowPerTriple ==
  /\ Cardinality(Range(rows)) = Len(rows)
  /\ Len(rows) = Cardinality({ Triple(rawRows[i]) : i \in 1..Len(rawRows) })
  /\ \A t \in { Triple(rawRows[i]) : i \in 1..Len(rawRows) } :
       \E k \in 1..Len(rows) :
         /\ Triple(rows[k]) = t
         /\ rows[k].netItemsSold = SoldOfTriple(t)
         /\ \A m \in 1..Len(rows) : Triple(rows[m]) = t => m = k

\* the creation time lies in the submitted window, the end time taken to
\* second 59, millisecond 999 of its minute
WithinWindow(o) ==
  /\ ParseDate(startDateStr) <= ParseCreatedAt(o.createdAt)
  /\ ParseCreatedAt(o.createdAt) <= ParseDate(endDateStr) + 59999

\* the location names reported by the inventory levels of a list of orders
NamesReported(orders) ==
  UNION { UNION { { IF n.variant[1].levels[j].location = "" THEN "Unknown"
                    ELSE n.variant[1].levels[j].location :
                      j \in 1..Len(n.variant[1].levels) } :
                  n \in { m \in Range(o.lineItems) : m.variant # <<>> } } :
          o \in Range(orders) }

(* -------------------------------- claims -------------------------------- *)

\* C1: the accumulated list allOrders holds exactly the orders of the
\* processed pages whose creation time t satisfies startDate <= t <= endDate
\* (end of the submitted minute), each once and in fetch order.
C1_FilterExact == allOrders = SelectSeq(fetched, WithinWindow)

C1_Witness ==
  /\ pc = "done"
  /\ requests = 2
  /\ O1 \in Range(allOrders) /\ O2 \in Range(allOrders)
  /\ O3 \in Range(fetched) /\ O4 \in Range(fetched)
  /\ O3 \notin Range(allOrders) /\ O4 \notin Range(allOrders)

\* C2 as stated: the loop never holds more than 1000 matched orders.
C2_AtMostCap == Len(allOrders) <= MaxMatched

\* C2 amended: the loop never holds more than 1000 matched orders plus one
\* page of 50, and it requests a page only while it holds at most 1000.
C2_AtMostCapPlusPage ==
  /\ Len(allOrders) <= MaxMatched + PageSize
  /\ pc = "fetch" => Len(allOrders) <= MaxMatched

C2_Witness ==
  /\ pc = "done"
  /\ Len(allOrders) = MaxMatched + PageSize
  /\ hasNextPage

\* C3 as stated: when no field of a flattened row contains "||", there is
\* exactly one aggregate row per distinct (productTitle, productVariantTitle,
\* sku), its netItemsSold is the sum of the quantities of the flattened rows
\* of that triple, and rows of different triples are not merged.
C3_GroupingUnlessDelim ==
  (pc = "done" /\ \A i \in 1..Len(rawRows) :
                    /\ ~HasDelim(rawRows[i].productTitle)
                    /\ ~HasDelim(rawRows[i].productVariantTitle)
                    /\ ~HasDelim(rawRows[i].sku))
    => OneRowPerTriple

\* C3 amended: every flattened row goes to exactly one property of `grouped`,
\* two rows of one triple to the same one; and when no field of a flattened
\* row contains the character "|", there is exactly one aggregate row per
\* distinct triple, holding the sum of the quantities of that triple.
C3_GroupingUnlessPipe ==
  pc = "done" =>
    /\ \A i \in 1..Len(rawRows) :
         Cardinality({ k \in 1..Len(grouped) :
                         grouped[k].key = GroupKey(rawRows[i]) }) = 1
    /\ (\A i \in 1..Len(rawRows) :
          /\ ~HasPipe(rawRows[i].productTitle)
          /\ ~HasPipe(rawRows[i].productVariantTitle)
          /\ ~HasPipe(rawRows[i].sku))
         => OneRowPerTriple

C3_Witness ==
  /\ pc = "done"
  /\ \A i \in 1..Len(rawRows) :
       /\ ~HasPipe(rawRows[i].productTitle)
       /\ ~HasPipe(rawRows[i].productVariantTitle)
       /\ ~HasPipe(rawRows[i].sku)
  /\ \E i, j \in 1..Len(rawRows) :
       i # j /\ Triple(rawRows[i]) = Triple(rawRows[j])
  /\ \E i, j \in 1..Len(rawRows) :
       /\ rawRows[i].productTitle # rawRows[j].productTitle
       /\ rawRows[i].productVariantTitle = rawRows[j].productVariantTitle
       /\ rawRows[i].sku = rawRows[j].sku

\* C4 as stated: the loop stops only when the last processed page reported
\* hasNextPage false, when more than 1000 orders are matched, or when the
\* response reported errors or had no orders connection.
C4_StopsOnlyOnThree ==
  pc \in {"done", "threw"} =>
    \/ data = "ok" /\ ~hasNextPage
    \/ Len(allOrders) > MaxMatched
    \/ data \in {"errors", "noConnection"}

\* The part of C4 that holds: a loop that ended by returning ended for one of
\* the three reasons; without an error or the cap every page of the store was
\* requested, whatever the dates of its orders; nothing is requested after
\* the end.
C4_ReturnsOnlyOnThree ==
  pc = "done" =>
    /\ \/ data = "ok" /\ ~hasNextPage
       \/ Len(allOrders) > MaxMatched
       \/ data \in {"errors", "noConnection"}
    /\ (data = "ok" /\ Len(allOrders) <= MaxMatched) =>
         /\ requests = (IF store = <<>> THEN 1 ELSE Len(store))
         /\ fetched = Concat(store)

C4_NoRequestAfterEnd == [][pc # "fetch" => requests' = requests]_vars

\* C5 as stated: after a response with errors, a response without
\* data.orders, or a failed request, `action` has returned the aggregate of
\* the orders matched on the earlier pages, after one request for the failed
\* page.
C5_SilentPartialFailure ==
  data \in {"errors", "noConnection", "threw"} =>
    /\ pc = "done"
    /\ requests = cursor + 1
    /\ allOrders = SelectSeq(fetched, WithinWindow)
    /\ rows = SortRows(ObjectValues(GroupRows(BuildRows(allOrders).rawRows)))

\* The part of C5 that holds: the same, for a response with errors and a
\* response without data.orders.
C5_SilentOnReportedFailure ==
  data \in {"errors", "noConnection"} =>
    /\ pc = "done"
    /\ requests = cursor + 1
    /\ allOrders = SelectSeq(fetched, WithinWindow)
    /\ rows = SortRows(ObjectValues(GroupRows(BuildRows(allOrders).rawRows)))

\* C6 as stated: the returned locationNames are the location names of all
\* fetched orders, matched or not.
C6_NamesOfFetched ==
  pc = "done" => Range(locationNames) = NamesReported(fetched)

\* C6 amended: the returned locationNames are, without repetition, the
\* location names ("Unknown" for a missing one) reported by the inventory
\* levels of the line items of the matched orders.
C6_NamesOfMatched ==
  pc = "done" =>
    /\ Range(locationNames) = NamesReported(allOrders)
    /\ Cardinality(Range(locationNames)) = Len(locationNames)

C6_Witness ==
  /\ pc = "done"
  /\ O3 \in Range(fetched)
  /\ "Warehouse B" \notin Range(locationNames)
  /\ "Unknown" \in Range(locationNames)
  /\ "Warehouse A" \in Range(locationNames)

\* a line item without SKU and without variant title
Bare(n) == n.variant = <<>> \/ (n.variant[1].sku = <<>> /\ n.variant[1].title = <<>>)

\* a flattened or aggregate row with the placeholder as SKU and variant title
BareRow(r) == r.sku = NA /\ r.productVariantTitle = NA

BareRowsGetPlaceholder ==
  LET items == MatchedItems
  IN /\ Len(rawRows) = Len(items)
     /\ \A i \in 1..Len(rawRows) : Bare(items[i]) => BareRow(rawRows[i])

\* C7 as stated: a line item without SKU and variant title gives a row with
\* sku "N/A" and productVariantTitle "N/A", and all such line items, whatever
\* their products, are in one aggregate row.
C7_BareRowsMerge ==
  pc = "done" =>
    /\ BareRowsGetPlaceholder
    /\ Cardinality({ k \in 1..Len(rows) : BareRow(rows[k]) }) <= 1

\* C7 amended: such a line item gives a row with sku "N/A" and
\* productVariantTitle "N/A"; two such line items are in the same aggregate
\* row exactly when their product titles ("N/A" for a missing one) are equal.
C7_BareRowsMergePerTitle ==
  pc = "done" =>
    /\ BareRowsGetPlaceholder
    /\ \A i \in { j \in 1..Len(rawRows) : BareRow(rawRows[j]) } :
         \E k \in 1..Len(rows) :
           /\ BareRow(rows[k])
           /\ rows[k].productTitle = rawRows[i].productTitle
           /\ rows[k].netItemsSold = SoldOfTriple(Triple(rawRows[i]))
           /\ \A m \in 1..Len(rows) :
                (BareRow(rows[m]) /\ rows[m].productTitle = rawRows[i].productTitle)
                  => m = k

C7_Witness ==
  /\ pc = "done"
  /\ LET items == MatchedItems
     IN \E i, j \in 1..Len(items) :
          /\ i # j
          /\ Bare(items[i]) /\ Bare(items[j])
          /\ items[i].product # items[j].product
          /\ rawRows[i].productTitle = rawRows[j].productTitle
  /\ Cardinality({ k \in 1..Len(rows) : BareRow(rows[k]) }) = 2

\* C8: the returned rows are non-decreasing by SKU under localeCompare and
\* are the aggregate rows, each once.
C8_SortedBySku ==
  pc = "done" =>
    /\ \A i, j \in 1..Len(rows) :
         i < j => LocaleCompare(rows[i].sku, rows[j].sku) <= 0
    /\ Len(rows) = Len(grouped)
    /\ \A r \in Range(rows) \cup Range(ObjectValues(grouped)) :
         Cardinality({ i \in 1..Len(rows) : rows[i] = r })
           = Cardinality({ k \in 1..Len(grouped) : grouped[k].row = r })

C8_Witness ==
  /\ pc = "done"
  /\ Len(rows) >= 3
  /\ rows # ObjectValues(grouped)

\* C9: for every aggregate row and location L, locations[L] is the value of
\* the last flattened row of the group that reports L, and L is absent iff no
\* row of the group reports it; quantities 3 and 5 of one key, the first
\* with "Warehouse A" available 10 and the second without inventory data,
\* give netItemsSold 8 and locations {"Warehouse A": 10}.
C9_LastWriteWins ==
  pc = "done" =>
    /\ Range(rows) = Range(ObjectValues(grouped))
    /\ \A k \in 1..Len(grouped) :
         \A L \in Range(locationNames) \cup DOMAIN grouped[k].row.locations :
           LET reporting == { i \in 1..Len(rawRows) :
                                /\ GroupKey(rawRows[i]) = grouped[k].key
                                /\ L \in DOMAIN rawRows[i].locations }
           IN IF reporting = {}
              THEN L \notin DOMAIN grouped[k].row.locations
              ELSE /\ L \in DOMAIN grouped[k].row.locations
                   /\ \A i \in reporting :
                        (\A j \in reporting : j <= i) =>
                          grouped[k].row.locations[L] = rawRows[i].locations[L]
    /\ allOrders = <<O1>> =>
         /\ Len(rows) = 1
         /\ rows[1].sku = SkuABC
         /\ rows[1].netItemsSold = 8
         /\ rows[1].locations = [x \in {"Warehouse A"} |-> [dash |-> FALSE, n |-> 10]]

C9_Witness ==
  /\ pc = "done"
  /\ allOrders = <<O2, O1>>
  /\ rows[1].netItemsSold = 9
  /\ rows[1].locations["Warehouse A"].n = 10

\* C10: the netItemsSold of the returned rows add up to the quantities of
\* the line items of the matched orders.
C10_Conservation ==
  pc = "done" =>
    LET items == MatchedItems
    IN Total([k \in 1..Len(rows) |-> rows[k].netItemsSold])
         = Total([i \in 1..Len(items) |-> items[i].quantity])

C10_Witness ==
  /\ pc = "done"
  /\ Len(rows) >= 2
  /\ Len(MatchedItems) > Len(rows)
  /\ Total([k \in 1..Len(rows) |-> rows[k].netItemsSold]) > 0

====
